---- MODULE Spec2Model ----
(***************************************************************************)
(* A model of two primitives of aws-c-common:                              *)
(*   - the byte cursor (struct aws_byte_cursor) with its two bounds-checked *)
(*     advance operations and the branchless aws_nospec_index they rest on, *)
(*   - the GNU-intrinsics backend of the atomic variable (atomics_gnu.inl). *)
(* size_t is modelled as an unsigned integer of W bits; every arithmetic    *)
(* step of the source is taken modulo 2^W.                                  *)
(***************************************************************************)
EXTENDS Integers, Naturals, Sequences, FiniteSets, TLC

VARIABLES buf, cursor, rv, call, hist,
          ni,
          var, kind, aborted, last,
          v0, cnt, rets,
          mem, tview, ord, pcA, pcB, obs

cvars == <<buf, cursor, rv, call, hist>>
nvars == <<ni>>
\* var is the storage of one struct aws_atomic_var; aborted: abort() was called.
\* kind is which initialiser the cell was set up with ("int" or "ptr"); the
\* struct itself keeps no such tag.
avars == <<var, kind, aborted, last>>
kvars == <<v0, cnt, rets>>
mvars == <<mem, tview, ord, pcA, pcB, obs>>
vars == <<buf, cursor, rv, call, hist, ni, var, kind, aborted, last, v0, cnt, rets,
          mem, tview, ord, pcA, pcB, obs>>

(***************************************************************************)
(* Bounds of the model.                                                    *)
(***************************************************************************)
\* Width in bits of size_t / uintptr_t in the model.
W == 4
\* Threads incrementing one counter, and calls made by each.
NThreads == 2
KCalls == 2
\* Message passing: plain variables the writer fills before it raises the
\* flag, and loads of the flag the reader makes before it gives up.
NData == 2
MaxPolls == 2

(***************************************************************************)
(* Machine words.                                                          *)
(***************************************************************************)
RECURSIVE Pow2(_)
Pow2(n) == IF n = 0 THEN 1 ELSE 2 * Pow2(n - 1)

WordSize == Pow2(W)
SIZE_MAX == WordSize - 1
\* SIZE_MAX >> 1
HALF_MAX == SIZE_MAX \div 2
Word == 0..SIZE_MAX
NULL == 0

\* Unsigned arithmetic of width W.
AddW(a, b) == (a + b) % WordSize
SubW(a, b) == (a + WordSize - b) % WordSize
MulW(a, b) == (a * b) % WordSize

RECURSIVE BitAnd(_, _)
BitAnd(a, b) ==
    IF a = 0 \/ b = 0 THEN 0
    ELSE (a % 2) * (b % 2) + 2 * BitAnd(a \div 2, b \div 2)

RECURSIVE BitOr(_, _)
BitOr(a, b) ==
    IF a = 0 THEN b
    ELSE IF b = 0 THEN a
    ELSE (IF a % 2 = 1 \/ b % 2 = 1 THEN 1 ELSE 0) + 2 * BitOr(a \div 2, b \div 2)

RECURSIVE BitXor(_, _)
BitXor(a, b) ==
    IF a = 0 THEN b
    ELSE IF b = 0 THEN a
    ELSE ((a + b) % 2) + 2 * BitXor(a \div 2, b \div 2)

\* ~x on a W-bit word.
BitNot(a) == SIZE_MAX - a

(***************************************************************************)
(* aws_nospec_index: the branchless clamp.                                 *)
(***************************************************************************)
\* Without the sign-bit check (negative_mask left out).
aws_nospec_index_nosigncheck(index, bound) ==
    LET toobig_mask   == SubW(SubW(bound, index), 1)
        top_bit       == SIZE_MAX - HALF_MAX
        low_bit       == BitNot(toobig_mask) \div top_bit
        all_bits      == MulW(low_bit, SIZE_MAX)
    IN  BitAnd(index, all_bits)

aws_nospec_index(index, bound) ==
    LET negative_mask == BitOr(index, bound)
        toobig_mask   == SubW(SubW(bound, index), 1)
        combined_mask == BitOr(negative_mask, toobig_mask)
        top_bit       == SIZE_MAX - HALF_MAX
        low_bit       == BitNot(combined_mask) \div top_bit
        all_bits      == MulW(low_bit, SIZE_MAX)
    IN  BitAnd(index, all_bits)

(***************************************************************************)
(* Byte buffers and cursors.  A pointer is an address, a W-bit word; NULL   *)
(* is address 0.                                                            *)
(***************************************************************************)
EmptyCursor == [ptr |-> NULL, len |-> 0]

aws_byte_cursor_from_buf(b) == [ptr |-> b.buffer, len |-> b.len]

\* The result of a call: the returned cursor rv and the cursor *cursor
\* as the call leaves it.
\* (variant: the range check lets len = cursor->len + 1 through)
aws_byte_cursor_advance_offbyone(c, len) ==
    IF c.len > HALF_MAX \/ len > HALF_MAX \/ len > c.len + 1
    THEN [rv |-> EmptyCursor, cursor |-> c]
    ELSE [rv     |-> [ptr |-> c.ptr, len |-> len],
          cursor |-> [ptr |-> AddW(c.ptr, len), len |-> SubW(c.len, len)]]

\* (variant: cursor->len -= len left out)
aws_byte_cursor_advance_nolenupdate(c, len) ==
    IF c.len > HALF_MAX \/ len > HALF_MAX \/ len > c.len
    THEN [rv |-> EmptyCursor, cursor |-> c]
    ELSE [rv     |-> [ptr |-> c.ptr, len |-> len],
          cursor |-> [ptr |-> AddW(c.ptr, len), len |-> c.len]]

aws_byte_cursor_advance(c, len) ==
    IF c.len > HALF_MAX \/ len > HALF_MAX \/ len > c.len
    THEN [rv |-> EmptyCursor, cursor |-> c]
    ELSE [rv     |-> [ptr |-> c.ptr, len |-> len],
          cursor |-> [ptr |-> AddW(c.ptr, len), len |-> SubW(c.len, len)]]

\* The accepted branch of aws_byte_cursor_advance_nospec: len goes through
\* aws_nospec_index with bound cursor->len + 1 (a size_t sum) before it is used.
aws_byte_cursor_advance_nospec_body(c, len) ==
    LET m == aws_nospec_index(len, AddW(c.len, 1))
    IN  [rv     |-> [ptr |-> c.ptr, len |-> m],
         cursor |-> [ptr |-> AddW(c.ptr, m), len |-> SubW(c.len, m)]]

\* The masking done in place of the range check (the order the source's
\* comment warns against): an out-of-range len becomes a zero-length read.
aws_byte_cursor_advance_nospec_maskonly(c, len) ==
    IF len <= HALF_MAX /\ c.len <= HALF_MAX
    THEN LET m == aws_nospec_index(len, AddW(c.len, 1))
         IN  [rv     |-> [ptr |-> c.ptr, len |-> m],
              cursor |-> [ptr |-> AddW(c.ptr, m), len |-> SubW(c.len, m)]]
    ELSE [rv |-> EmptyCursor, cursor |-> c]

aws_byte_cursor_advance_nospec(c, len) ==
    IF len <= c.len /\ len <= HALF_MAX /\ c.len <= HALF_MAX
    THEN aws_byte_cursor_advance_nospec_body(c, len)
    ELSE [rv |-> EmptyCursor, cursor |-> c]

(***************************************************************************)
(* The cursor machine: a buffer view owned by the caller, a cursor derived  *)
(* from it, and any sequence of the two advance calls with any length.      *)
(* call records the last call: which one, its len argument, and *cursor as  *)
(* it was when the call was made.                                           *)
(***************************************************************************)
\* Base addresses of the caller's buffers (NULL included: nothing validates).
Bases == {NULL, 1, 2}

\* The views a caller can hold: the region lies inside the address space.
Views == {b \in [buffer : Bases, len : Word] : b.buffer + b.len <= SIZE_MAX}

NoCall == [op |-> "none", len |-> 0, pre |-> EmptyCursor]

\* The branch both advance functions take: TRUE for the one that returns a
\* slice, FALSE for the one that returns (NULL, 0).
Accepts(c, len) == len <= c.len /\ len <= HALF_MAX /\ c.len <= HALF_MAX

\* What the caller has been handed so far: sum is the total length of the
\* slices returned (a size_t), end is where the last returned slice ended
\* (the view's base before any) and prev is end as it was before the last
\* call.
Returned(h, c, len, r) ==
    IF Accepts(c, len)
    THEN [sum  |-> AddW(h.sum, r.rv.len),
          end  |-> AddW(r.rv.ptr, r.rv.len),
          prev |-> h.end]
    ELSE [h EXCEPT !.prev = h.end]

InitCursor ==
    /\ buf \in Views
    /\ cursor = aws_byte_cursor_from_buf(buf)
    /\ rv = EmptyCursor
    /\ call = NoCall
    /\ hist = [sum |-> 0, end |-> buf.buffer, prev |-> buf.buffer]

IdleCursor ==
    /\ buf = [buffer |-> NULL, len |-> 0]
    /\ cursor = EmptyCursor
    /\ rv = EmptyCursor
    /\ call = NoCall
    /\ hist = [sum |-> 0, end |-> NULL, prev |-> NULL]

Advance ==
    \E len \in Word :
        LET r == aws_byte_cursor_advance(cursor, len) IN
        /\ cursor' = r.cursor
        /\ rv' = r.rv
        /\ call' = [op |-> "advance", len |-> len, pre |-> cursor]
        /\ hist' = Returned(hist, cursor, len, r)
        /\ UNCHANGED <<buf, nvars, avars, kvars, mvars>>

AdvanceNospec ==
    \E len \in Word :
        LET r == aws_byte_cursor_advance_nospec(cursor, len) IN
        /\ cursor' = r.cursor
        /\ rv' = r.rv
        /\ call' = [op |-> "advance_nospec", len |-> len, pre |-> cursor]
        /\ hist' = Returned(hist, cursor, len, r)
        /\ UNCHANGED <<buf, nvars, avars, kvars, mvars>>

(***************************************************************************)
(* aws_nospec_index as a machine: any pair of words in, the result out.     *)
(***************************************************************************)
InitNospec ==
    ni \in [index : Word, bound : Word, called : {FALSE}, result : {0},
            spec : {FALSE}, pre : {EmptyCursor}, rv : {EmptyCursor},
            cursor : {EmptyCursor}]

IdleNospec ==
    ni = [index |-> 0, bound |-> 0, called |-> FALSE, result |-> 0,
          spec |-> FALSE, pre |-> EmptyCursor, rv |-> EmptyCursor,
          cursor |-> EmptyCursor]

NospecIndex ==
    /\ ~ni.called
    /\ ni' = [ni EXCEPT !.called = TRUE,
                        !.result = aws_nospec_index(ni.index, ni.bound)]
    /\ UNCHANGED <<cvars, avars, kvars, mvars>>

\* The accepted branch of aws_byte_cursor_advance_nospec run without its range
\* check, as on a mispredicted path: any len (ni.index) against a cursor with
\* any remaining length (ni.bound) at any base.
NospecBody ==
    /\ ~ni.spec
    /\ \E p \in Bases :
          LET c == [ptr |-> p, len |-> ni.bound]
              r == aws_byte_cursor_advance_nospec_body(c, ni.index)
          IN  ni' = [ni EXCEPT !.spec = TRUE, !.pre = c,
                               !.rv = r.rv, !.cursor = r.cursor]
    /\ UNCHANGED <<cvars, avars, kvars, mvars>>

(***************************************************************************)
(* Atomic variables (atomics_gnu.inl).  struct aws_atomic_var is a union of *)
(* a size_t and a pointer: one word of storage, read and written by both    *)
(* families of operations.                                                  *)
(***************************************************************************)
\* enum aws_memory_order, and a value outside it.
Orders == {"relaxed", "acquire", "release", "acq_rel", "seq_cst"}
AnyOrder == Orders \cup {"unknown"}

\* (variant: release translated to the relaxed token)
aws_atomic_priv_xlate_order_norelease(order) ==
    CASE order = "relaxed" -> "__ATOMIC_RELAXED"
      [] order = "acquire" -> "__ATOMIC_ACQUIRE"
      [] order = "release" -> "__ATOMIC_RELAXED"
      [] order = "acq_rel" -> "__ATOMIC_ACQ_REL"
      [] order = "seq_cst" -> "__ATOMIC_SEQ_CST"
      [] OTHER -> "abort"

\* The intrinsic's ordering token, or "abort" for the default branch.
aws_atomic_priv_xlate_order(order) ==
    CASE order = "relaxed" -> "__ATOMIC_RELAXED"
      [] order = "acquire" -> "__ATOMIC_ACQUIRE"
      [] order = "release" -> "__ATOMIC_RELEASE"
      [] order = "acq_rel" -> "__ATOMIC_ACQ_REL"
      [] order = "seq_cst" -> "__ATOMIC_SEQ_CST"
      [] OTHER -> "abort"

\* The outcome of a call on a cell holding v: whether the process aborted,
\* the value returned, the cell afterwards, and (compare-exchange) the
\* boolean returned and *expected afterwards.
Outcome(ab, ret, v, ok, exp) ==
    [aborted |-> ab, ret |-> ret, var |-> v, ok |-> ok, expected |-> exp]

\* abort() while the arguments are evaluated: the intrinsic never runs.
AbortOutcome(v, exp) == Outcome(TRUE, 0, v, FALSE, exp)

\* The GCC/Clang intrinsics on one cell.  Each is one indivisible access.
atomic_load_n(v, mo) == Outcome(FALSE, v, v, FALSE, 0)
atomic_store_n(v, n, mo) == Outcome(FALSE, 0, n, FALSE, 0)
atomic_exchange_n(v, n, mo) == Outcome(FALSE, v, n, FALSE, 0)
atomic_fetch_add(v, n, mo) == Outcome(FALSE, v, AddW(v, n), FALSE, 0)
atomic_fetch_sub(v, n, mo) == Outcome(FALSE, v, SubW(v, n), FALSE, 0)
atomic_fetch_or(v, n, mo) == Outcome(FALSE, v, BitOr(v, n), FALSE, 0)
atomic_fetch_and(v, n, mo) == Outcome(FALSE, v, BitAnd(v, n), FALSE, 0)
atomic_fetch_xor(v, n, mo) == Outcome(FALSE, v, BitXor(v, n), FALSE, 0)

\* __atomic_compare_exchange_n: the set of its possible outcomes.  The weak
\* form may also fail although the cell holds *expected.
atomic_compare_exchange_n(v, expected, desired, weak, smo, fmo) ==
    IF v = expected
    THEN {Outcome(FALSE, 0, desired, TRUE, expected)}
         \cup (IF weak THEN {Outcome(FALSE, 0, v, FALSE, v)} ELSE {})
    ELSE {Outcome(FALSE, 0, v, FALSE, v)}

\* __atomic_thread_fence: no cell is read or written.
atomic_thread_fence(v, mo) == Outcome(FALSE, 0, v, FALSE, 0)

\* var->intval = n and var->ptrval = p: the word the cell holds afterwards.
aws_atomic_init_int(n) == n
aws_atomic_init_ptr(p) == p

aws_atomic_load_int_explicit(v, order) ==
    LET mo == aws_atomic_priv_xlate_order(order)
    IN  IF mo = "abort" THEN AbortOutcome(v, 0) ELSE atomic_load_n(v, mo)

aws_atomic_load_ptr_explicit(v, order) ==
    LET mo == aws_atomic_priv_xlate_order(order)
    IN  IF mo = "abort" THEN AbortOutcome(v, 0) ELSE atomic_load_n(v, mo)

\* (variant: the value is never written)
aws_atomic_store_int_explicit_nowrite(v, n, order) ==
    LET mo == aws_atomic_priv_xlate_order(order)
    IN  IF mo = "abort" THEN AbortOutcome(v, 0) ELSE atomic_load_n(v, mo)

aws_atomic_store_int_explicit(v, n, order) ==
    LET mo == aws_atomic_priv_xlate_order(order)
    IN  IF mo = "abort" THEN AbortOutcome(v, 0) ELSE atomic_store_n(v, n, mo)

aws_atomic_store_ptr_explicit(v, p, order) ==
    LET mo == aws_atomic_priv_xlate_order(order)
    IN  IF mo = "abort" THEN AbortOutcome(v, 0) ELSE atomic_store_n(v, p, mo)

\* (variant: the load intrinsic called in place of exchange)
aws_atomic_exchange_int_explicit_load(v, n, order) ==
    LET mo == aws_atomic_priv_xlate_order(order)
    IN  IF mo = "abort" THEN AbortOutcome(v, 0) ELSE atomic_load_n(v, mo)

aws_atomic_exchange_int_explicit(v, n, order) ==
    LET mo == aws_atomic_priv_xlate_order(order)
    IN  IF mo = "abort" THEN AbortOutcome(v, 0) ELSE atomic_exchange_n(v, n, mo)

aws_atomic_exchange_ptr_explicit(v, p, order) ==
    LET mo == aws_atomic_priv_xlate_order(order)
    IN  IF mo = "abort" THEN AbortOutcome(v, 0) ELSE atomic_exchange_n(v, p, mo)

\* order goes to the intrinsic as it is, not through
\* aws_atomic_priv_xlate_order: no value of it aborts.
aws_atomic_thread_fence(v, order) == atomic_thread_fence(v, order)

\* (variant: the weak flag passed as true)
aws_atomic_compare_exchange_int_explicit_weak(v, expected, desired, os, of) ==
    LET smo == aws_atomic_priv_xlate_order(os)
        fmo == aws_atomic_priv_xlate_order(of)
    IN  IF smo = "abort" \/ fmo = "abort"
        THEN {AbortOutcome(v, expected)}
        ELSE atomic_compare_exchange_n(v, expected, desired, TRUE, smo, fmo)

aws_atomic_compare_exchange_int_explicit(v, expected, desired, os, of) ==
    LET smo == aws_atomic_priv_xlate_order(os)
        fmo == aws_atomic_priv_xlate_order(of)
    IN  IF smo = "abort" \/ fmo = "abort"
        THEN {AbortOutcome(v, expected)}
        ELSE atomic_compare_exchange_n(v, expected, desired, FALSE, smo, fmo)

aws_atomic_compare_exchange_ptr_explicit(v, expected, desired, os, of) ==
    LET smo == aws_atomic_priv_xlate_order(os)
        fmo == aws_atomic_priv_xlate_order(of)
    IN  IF smo = "abort" \/ fmo = "abort"
        THEN {AbortOutcome(v, expected)}
        ELSE atomic_compare_exchange_n(v, expected, desired, FALSE, smo, fmo)

\* (variant: the or intrinsic called in place of add)
aws_atomic_fetch_add_explicit_or(v, n, order) ==
    LET mo == aws_atomic_priv_xlate_order(order)
    IN  IF mo = "abort" THEN AbortOutcome(v, 0) ELSE atomic_fetch_or(v, n, mo)

aws_atomic_fetch_add_explicit(v, n, order) ==
    LET mo == aws_atomic_priv_xlate_order(order)
    IN  IF mo = "abort" THEN AbortOutcome(v, 0) ELSE atomic_fetch_add(v, n, mo)

\* (variant: the add intrinsic called in place of sub)
aws_atomic_fetch_sub_explicit_add(v, n, order) ==
    LET mo == aws_atomic_priv_xlate_order(order)
    IN  IF mo = "abort" THEN AbortOutcome(v, 0) ELSE atomic_fetch_add(v, n, mo)

aws_atomic_fetch_sub_explicit(v, n, order) ==
    LET mo == aws_atomic_priv_xlate_order(order)
    IN  IF mo = "abort" THEN AbortOutcome(v, 0) ELSE atomic_fetch_sub(v, n, mo)

aws_atomic_fetch_or_explicit(v, n, order) ==
    LET mo == aws_atomic_priv_xlate_order(order)
    IN  IF mo = "abort" THEN AbortOutcome(v, 0) ELSE atomic_fetch_or(v, n, mo)

aws_atomic_fetch_and_explicit(v, n, order) ==
    LET mo == aws_atomic_priv_xlate_order(order)
    IN  IF mo = "abort" THEN AbortOutcome(v, 0) ELSE atomic_fetch_and(v, n, mo)

aws_atomic_fetch_xor_explicit(v, n, order) ==
    LET mo == aws_atomic_priv_xlate_order(order)
    IN  IF mo = "abort" THEN AbortOutcome(v, 0) ELSE atomic_fetch_xor(v, n, mo)

(***************************************************************************)
(* The atomic cell machine: one initialised cell, and any sequence of       *)
(* operations on it by any threads.  Each operation is one indivisible      *)
(* access, so a sequence of calls is an interleaving.  last records the     *)
(* last call: its name and arguments, the cell before it, and what it       *)
(* returned.  After abort() nothing runs.                                   *)
(***************************************************************************)
\* Operands and stored values of the calls.
Operands == {1, HALF_MAX + 1, SIZE_MAX}

\* Expected values tried besides the cell's own, and desired values.
Expecteds == {0, SIZE_MAX}
Desireds == {1, SIZE_MAX}

\* Pairs <<order_success, order_failure>> tried: well-formed ones, ones whose
\* failure order is release or acq_rel or stronger than the success order,
\* and ones with a value outside the enumeration.
OrderPairs ==
    { <<"relaxed", "relaxed">>, <<"acquire", "relaxed">>, <<"release", "relaxed">>,
      <<"acq_rel", "acquire">>, <<"seq_cst", "acquire">>, <<"seq_cst", "seq_cst">>,
      <<"seq_cst", "release">>, <<"acq_rel", "acq_rel">>,
      <<"relaxed", "acquire">>, <<"relaxed", "seq_cst">>,
      <<"unknown", "relaxed">>, <<"relaxed", "unknown">> }

\* For a load, the call it came right after: its name and the value it set.
NoAfter == [op |-> "none", n |-> 0]

NoOp == [op |-> "none", n |-> 0, order |-> "relaxed", order_failure |-> "relaxed",
         old |-> 0, ret |-> 0, ok |-> FALSE, exp_in |-> 0, exp_out |-> 0,
         after |-> NoAfter]

\* aws_atomic_init_int(&var, n) or aws_atomic_init_ptr(&var, p), done before
\* any other operation.
InitAtomic ==
    /\ \E n \in Word :
          \/ /\ kind = "int"
             /\ var = aws_atomic_init_int(n)
             /\ last = [NoOp EXCEPT !.op = "init_int", !.n = n]
          \/ /\ kind = "ptr"
             /\ var = aws_atomic_init_ptr(n)
             /\ last = [NoOp EXCEPT !.op = "init_ptr", !.n = n]
    /\ aborted = FALSE

IdleAtomic ==
    /\ var = 0
    /\ kind = "int"
    /\ aborted = FALSE
    /\ last = NoOp

\* The call op(n, order) with outcome r takes effect.
Effect(op, n, order, of, exp, r) ==
    /\ var' = r.var
    /\ aborted' = r.aborted
    /\ last' = [op |-> op, n |-> n, order |-> order, order_failure |-> of,
                old |-> var, ret |-> r.ret, ok |-> r.ok,
                exp_in |-> exp, exp_out |-> r.expected,
                after |-> IF op \in {"load_int", "load_ptr"}
                          THEN [op |-> last.op, n |-> last.n] ELSE NoAfter]
    /\ UNCHANGED <<kind, cvars, nvars, kvars, mvars>>

LoadInt ==
    /\ ~aborted
    /\ \E o \in AnyOrder :
          Effect("load_int", 0, o, o, 0, aws_atomic_load_int_explicit(var, o))

LoadPtr ==
    /\ ~aborted
    /\ \E o \in AnyOrder :
          Effect("load_ptr", 0, o, o, 0, aws_atomic_load_ptr_explicit(var, o))

StoreInt ==
    /\ ~aborted
    /\ \E n \in Operands, o \in AnyOrder :
          Effect("store_int", n, o, o, 0, aws_atomic_store_int_explicit(var, n, o))

StorePtr ==
    /\ ~aborted
    /\ \E p \in Operands, o \in AnyOrder :
          Effect("store_ptr", p, o, o, 0, aws_atomic_store_ptr_explicit(var, p, o))

ExchangeInt ==
    /\ ~aborted
    /\ \E n \in Operands, o \in AnyOrder :
          Effect("exchange_int", n, o, o, 0, aws_atomic_exchange_int_explicit(var, n, o))

ExchangePtr ==
    /\ ~aborted
    /\ \E p \in Operands, o \in AnyOrder :
          Effect("exchange_ptr", p, o, o, 0, aws_atomic_exchange_ptr_explicit(var, p, o))

ThreadFence ==
    /\ ~aborted
    /\ \E o \in AnyOrder :
          Effect("thread_fence", 0, o, o, 0, aws_atomic_thread_fence(var, o))

CompareExchangeInt ==
    /\ ~aborted
    /\ \E e \in Expecteds \cup {var}, d \in Desireds, o \in OrderPairs :
          \E r \in aws_atomic_compare_exchange_int_explicit(var, e, d, o[1], o[2]) :
              Effect("compare_exchange_int", d, o[1], o[2], e, r)

CompareExchangePtr ==
    /\ ~aborted
    /\ \E e \in Expecteds \cup {var}, d \in Desireds, o \in OrderPairs :
          \E r \in aws_atomic_compare_exchange_ptr_explicit(var, e, d, o[1], o[2]) :
              Effect("compare_exchange_ptr", d, o[1], o[2], e, r)

FetchAdd ==
    /\ ~aborted
    /\ \E n \in Operands, o \in AnyOrder :
          Effect("fetch_add", n, o, o, 0, aws_atomic_fetch_add_explicit(var, n, o))

FetchSub ==
    /\ ~aborted
    /\ \E n \in Operands, o \in AnyOrder :
          Effect("fetch_sub", n, o, o, 0, aws_atomic_fetch_sub_explicit(var, n, o))

FetchOr ==
    /\ ~aborted
    /\ \E n \in Operands, o \in AnyOrder :
          Effect("fetch_or", n, o, o, 0, aws_atomic_fetch_or_explicit(var, n, o))

FetchAnd ==
    /\ ~aborted
    /\ \E n \in Operands, o \in AnyOrder :
          Effect("fetch_and", n, o, o, 0, aws_atomic_fetch_and_explicit(var, n, o))

FetchXor ==
    /\ ~aborted
    /\ \E n \in Operands, o \in AnyOrder :
          Effect("fetch_xor", n, o, o, 0, aws_atomic_fetch_xor_explicit(var, n, o))

(***************************************************************************)
(* The shared counter: NThreads threads, each calling                       *)
(* aws_atomic_fetch_add_explicit(&var, 1, aws_memory_order_seq_cst) KCalls  *)
(* times, in any interleaving.  cnt[t] counts thread t's calls, rets lists  *)
(* the values the calls returned, v0 is the value the cell was initialised  *)
(* with.                                                                    *)
(***************************************************************************)
Threads == 1..NThreads

InitCounter ==
    /\ v0 \in Word
    /\ cnt = [t \in Threads |-> 0]
    /\ rets = <<>>

IdleCounter ==
    /\ v0 = 0
    /\ cnt = <<>>
    /\ rets = <<>>

Increment(t) ==
    /\ ~aborted
    /\ cnt[t] < KCalls
    /\ LET r == aws_atomic_fetch_add_explicit(var, 1, "seq_cst") IN
       /\ var' = r.var
       /\ aborted' = r.aborted
       /\ rets' = Append(rets, r.ret)
    /\ cnt' = [cnt EXCEPT ![t] = cnt[t] + 1]
    /\ UNCHANGED <<cvars, nvars, kind, last, v0, mvars>>

(***************************************************************************)
(* Message passing through one atomic flag.  Orderings other than seq_cst   *)
(* on one cell are visible only across several locations, so here memory is *)
(* the C11 release/acquire memory of messages and views: every location     *)
(* keeps the sequence of the messages written to it (its modification       *)
(* order; a message's timestamp is its index), every thread has a view, the *)
(* timestamp per location below which it may no longer read, a release      *)
(* store attaches the writer's view to its message and an acquire load      *)
(* joins the view of the message it reads into the reader's.                *)
(*   writer A:  data[1] = 1; ...; data[NData] = NData;                      *)
(*              aws_atomic_store_int_explicit(&flag, 1, ord.store);         *)
(*   reader B:  up to MaxPolls times                                        *)
(*                  r = aws_atomic_load_int_explicit(&flag, ord.load);      *)
(*              if r == 1: read data[1], ..., data[NData].                  *)
(* A read of data that races with A's write may return either value.        *)
(***************************************************************************)
DataLocs == 1..NData

\* The view of a thread when it starts: aws_atomic_init_int and the initial
\* values of data happen before both threads, as message 1 of each location.
StartView == [flag |-> 1, data |-> [i \in DataLocs |-> 1]]

Max(a, b) == IF a >= b THEN a ELSE b

JoinView(v1, v2) ==
    [flag |-> Max(v1.flag, v2.flag),
     data |-> [i \in DataLocs |-> Max(v1.data[i], v2.data[i])]]

Releases(mo) == mo \in {"__ATOMIC_RELEASE", "__ATOMIC_ACQ_REL", "__ATOMIC_SEQ_CST"}
Acquires(mo) == mo \in {"__ATOMIC_ACQUIRE", "__ATOMIC_ACQ_REL", "__ATOMIC_SEQ_CST"}

InitMP ==
    /\ mem = [flag |-> << [val |-> 0, view |-> StartView] >>,
              data |-> [i \in DataLocs |-> << [val |-> 0, view |-> StartView] >>]]
    /\ tview = [A |-> StartView, B |-> StartView]
    /\ ord \in [store : {"relaxed", "release", "seq_cst"},
                load  : {"relaxed", "acquire", "seq_cst"}]
    /\ pcA = 1
    /\ pcB = [at |-> "load", polls |-> 0, next |-> 1]
    /\ obs = [flag |-> 0, data |-> <<>>]

IdleMP ==
    /\ mem = <<>>
    /\ tview = <<>>
    /\ ord = <<>>
    /\ pcA = 0
    /\ pcB = <<>>
    /\ obs = <<>>

\* A: the plain write data[pcA] = pcA.
WriteData ==
    /\ pcA \in DataLocs
    /\ LET ts == Len(mem.data[pcA]) + 1
           v  == [tview.A EXCEPT !.data[pcA] = ts]
       IN  /\ mem' = [mem EXCEPT !.data[pcA] =
                          Append(@, [val |-> pcA, view |-> [StartView EXCEPT !.data[pcA] = ts]])]
           /\ tview' = [tview EXCEPT !.A = v]
    /\ pcA' = pcA + 1
    /\ UNCHANGED <<cvars, nvars, avars, kvars, ord, pcB, obs>>

\* A: aws_atomic_store_int_explicit(&flag, 1, ord.store).
StoreFlag ==
    /\ pcA = NData + 1
    /\ LET mo == aws_atomic_priv_xlate_order(ord.store)
           ts == Len(mem.flag) + 1
           v  == [tview.A EXCEPT !.flag = ts]
           mv == IF Releases(mo) THEN v ELSE [StartView EXCEPT !.flag = ts]
       IN  /\ mo # "abort"
           /\ mem' = [mem EXCEPT !.flag = Append(@, [val |-> 1, view |-> mv])]
           /\ tview' = [tview EXCEPT !.A = v]
    /\ pcA' = pcA + 1
    /\ UNCHANGED <<cvars, nvars, avars, kvars, ord, pcB, obs>>

\* B: r = aws_atomic_load_int_explicit(&flag, ord.load): any message of the
\* flag not older than B's view of it.
LoadFlag ==
    /\ pcB.at = "load"
    /\ \E ts \in tview.B.flag .. Len(mem.flag) :
          LET mo == aws_atomic_priv_xlate_order(ord.load)
              m  == mem.flag[ts]
              v  == [tview.B EXCEPT !.flag = ts]
          IN  /\ mo # "abort"
              /\ tview' = [tview EXCEPT !.B = IF Acquires(mo) THEN JoinView(v, m.view) ELSE v]
              /\ obs' = [obs EXCEPT !.flag = m.val]
              /\ pcB' = [at    |-> IF m.val = 1 THEN "read"
                                   ELSE IF pcB.polls + 1 < MaxPolls THEN "load" ELSE "done",
                         polls |-> pcB.polls + 1,
                         next  |-> 1]
    /\ UNCHANGED <<cvars, nvars, avars, kvars, mem, ord, pcA>>

\* B: the plain read of data[pcB.next], after the flag was seen raised.
ReadData ==
    /\ pcB.at = "read"
    /\ LET i == pcB.next IN
       \E ts \in tview.B.data[i] .. Len(mem.data[i]) :
          /\ tview' = [tview EXCEPT !.B.data[i] = ts]
          /\ obs' = [obs EXCEPT !.data = Append(@, mem.data[i][ts].val)]
          /\ pcB' = [pcB EXCEPT !.next = i + 1,
                                !.at = IF i = NData THEN "done" ELSE "read"]
    /\ UNCHANGED <<cvars, nvars, avars, kvars, mem, ord, pcA>>

(***************************************************************************)
(* Concurrent exchanges: NThreads threads, each making KCalls calls of      *)
(* aws_atomic_exchange_int_explicit or aws_atomic_exchange_ptr_explicit on  *)
(* one cell, in any interleaving and with any of the five orderings.  The   *)
(* k-th call of thread t places ExchangeValue(t, k), a value no other call  *)
(* places and the cell does not start with; rets lists the values returned. *)
(***************************************************************************)
ExchangeValue(t, k) == (t - 1) * KCalls + k

Exchange(t) ==
    /\ ~aborted
    /\ cnt[t] < KCalls
    /\ \E o \in Orders, variant \in {"exchange_int", "exchange_ptr"} :
          LET n == ExchangeValue(t, cnt[t] + 1)
              r == IF variant = "exchange_int"
                   THEN aws_atomic_exchange_int_explicit(var, n, o)
                   ELSE aws_atomic_exchange_ptr_explicit(var, n, o)
          IN  /\ var' = r.var
              /\ aborted' = r.aborted
              /\ rets' = Append(rets, r.ret)
              /\ last' = [NoOp EXCEPT !.op = variant, !.n = n, !.order = o,
                                      !.order_failure = o, !.old = var, !.ret = r.ret]
    /\ cnt' = [cnt EXCEPT ![t] = cnt[t] + 1]
    /\ UNCHANGED <<cvars, nvars, kind, v0, mvars>>

(***************************************************************************)
(* Racing compare-and-swap: the cell holds v0 and each of NThreads threads  *)
(* makes one call of aws_atomic_compare_exchange_int_explicit (on a cell    *)
(* set up with init_int) or aws_atomic_compare_exchange_ptr_explicit (with  *)
(* init_ptr), with *expected = v0 and a desired value other than v0, in any *)
(* interleaving.  rets lists the calls                                      *)
(* made: the thread, the value the cell held when the call ran, the value    *)
(* returned and *expected afterwards.                                        *)
(***************************************************************************)
RacePairs ==
    { <<"relaxed", "relaxed">>, <<"acquire", "relaxed">>, <<"release", "relaxed">>,
      <<"acq_rel", "acquire">>, <<"seq_cst", "acquire">>, <<"seq_cst", "seq_cst">> }

CompareExchange(t) ==
    /\ ~aborted
    /\ cnt[t] = 0
    /\ \E d \in Desireds \ {v0}, o \in RacePairs :
          \E r \in IF kind = "int"
                   THEN aws_atomic_compare_exchange_int_explicit(var, v0, d, o[1], o[2])
                   ELSE aws_atomic_compare_exchange_ptr_explicit(var, v0, d, o[1], o[2]) :
              /\ var' = r.var
              /\ aborted' = r.aborted
              /\ rets' = Append(rets, [t |-> t, desired |-> d, old |-> var,
                                       ok |-> r.ok, expected |-> r.expected])
    /\ cnt' = [cnt EXCEPT ![t] = 1]
    /\ UNCHANGED <<cvars, nvars, kind, last, v0, mvars>>

Init == InitCursor /\ IdleNospec /\ IdleAtomic /\ IdleCounter /\ IdleMP
Next == Advance \/ AdvanceNospec
Spec == Init /\ [][Next]_vars

InitN == IdleCursor /\ InitNospec /\ IdleAtomic /\ IdleCounter /\ IdleMP
NextN == NospecIndex \/ NospecBody
SpecNospec == InitN /\ [][NextN]_vars

InitA == IdleCursor /\ IdleNospec /\ InitAtomic /\ IdleCounter /\ IdleMP
NextA ==
    \/ LoadInt
    \/ LoadPtr
    \/ StoreInt
    \/ StorePtr
    \/ ExchangeInt
    \/ ExchangePtr
    \/ ThreadFence
    \/ CompareExchangeInt
    \/ CompareExchangePtr
    \/ FetchAdd
    \/ FetchSub
    \/ FetchOr
    \/ FetchAnd
    \/ FetchXor
SpecAtomic == InitA /\ [][NextA]_vars

InitK ==
    /\ IdleCursor /\ IdleNospec /\ InitCounter /\ IdleMP
    /\ var = aws_atomic_init_int(v0)
    /\ kind = "int"
    /\ aborted = FALSE
    /\ last = NoOp
NextK == \E t \in Threads : Increment(t)
SpecCounter == InitK /\ [][NextK]_vars

InitX ==
    /\ IdleCursor /\ IdleNospec /\ IdleMP
    /\ v0 \in {0, SIZE_MAX}
    /\ cnt = [t \in Threads |-> 0]
    /\ rets = <<>>
    /\ var = aws_atomic_init_int(v0)
    /\ kind = "int"
    /\ aborted = FALSE
    /\ last = NoOp
NextX == \E t \in Threads : Exchange(t)
SpecXchg == InitX /\ [][NextX]_vars

InitR ==
    /\ IdleCursor /\ IdleNospec /\ IdleMP
    /\ v0 \in Word
    /\ cnt = [t \in Threads |-> 0]
    /\ rets = <<>>
    /\ \/ kind = "int" /\ var = aws_atomic_init_int(v0)
       \/ kind = "ptr" /\ var = aws_atomic_init_ptr(v0)
    /\ aborted = FALSE
    /\ last = NoOp
NextR == \E t \in Threads : CompareExchange(t)
SpecCasRace == InitR /\ [][NextR]_vars

InitM == IdleCursor /\ IdleNospec /\ IdleAtomic /\ IdleCounter /\ InitMP
NextM == WriteData \/ StoreFlag \/ LoadFlag \/ ReadData
SpecMP == InitM /\ [][NextM]_vars

(***************************************************************************)
(* Properties of the cursor machine (specification Spec) and of             *)
(* aws_nospec_index (specification SpecNospec).                             *)
(***************************************************************************)
Rejected(c, len) == len > c.len \/ len > HALF_MAX \/ c.len > HALF_MAX

\* C1: for every cursor state and every len, aws_byte_cursor_advance_nospec
\* returns the same cursor as aws_byte_cursor_advance and leaves *cursor in
\* the same state, the boundary remaining length SIZE_MAX/2 included.
C1_NospecSameAsAdvance ==
    call.op = "advance_nospec" =>
        LET r == aws_byte_cursor_advance(call.pre, call.len)
        IN  rv = r.rv /\ cursor = r.cursor

\* C2: aws_byte_cursor_advance with len <= R, len <= SIZE_MAX/2 and
\* R <= SIZE_MAX/2 returns (ptr, len) and leaves the cursor at
\* (ptr + len, R - len).
C2_AdvanceAccepts ==
    (call.op = "advance" /\ ~Rejected(call.pre, call.len)) =>
        /\ rv = [ptr |-> call.pre.ptr, len |-> call.len]
        /\ cursor = [ptr |-> call.pre.ptr + call.len,
                     len |-> call.pre.len - call.len]

C2_Witness ==
    /\ call.op = "advance"
    /\ call.pre.len = HALF_MAX
    /\ call.len > 0 /\ call.len < call.pre.len
    /\ rv.len = call.len
    /\ cursor.ptr > call.pre.ptr

\* C3: both advance calls reject len > R, len > SIZE_MAX/2 and R > SIZE_MAX/2
\* by returning (NULL, 0) and leaving the cursor as it was; a cursor with
\* R > SIZE_MAX/2 rejects every advance, len = 0 included.
C3_RejectLeavesCursor ==
    (call.op \in {"advance", "advance_nospec"} /\ Rejected(call.pre, call.len)) =>
        /\ rv = EmptyCursor
        /\ cursor = call.pre

C3_Witness ==
    /\ call.op = "advance_nospec"
    /\ call.pre.ptr # NULL
    /\ call.pre.len > HALF_MAX
    /\ call.len = 0
    /\ rv = EmptyCursor
    /\ cursor = call.pre

\* C4: aws_nospec_index(index, bound) is index when index < bound <= SIZE_MAX/2
\* and 0 when index >= bound, index > SIZE_MAX/2 or bound > SIZE_MAX/2.
C4_NospecIndexValue ==
    ni.called =>
        /\ (ni.index < ni.bound /\ ni.bound <= HALF_MAX) => ni.result = ni.index
        /\ (ni.index >= ni.bound \/ ni.index > HALF_MAX \/ ni.bound > HALF_MAX)
               => ni.result = 0

C4_Witness ==
    /\ ni.called
    /\ ni.index = ni.bound
    /\ ni.bound = HALF_MAX
    /\ ni.result = 0

\* C5: over any sequence of advance calls the remaining length never grows,
\* the pointer never moves back, and the cursor stays inside the view it was
\* derived from: base <= ptr and ptr + remaining = base + L.
C5_CursorStaysInView ==
    /\ [](/\ buf.buffer <= cursor.ptr
          /\ cursor.ptr + cursor.len = buf.buffer + buf.len)
    /\ [][cursor'.len <= cursor.len /\ cursor'.ptr >= cursor.ptr]_vars

C5_Witness ==
    /\ call.op = "advance_nospec"
    /\ buf.buffer < call.pre.ptr
    /\ call.pre.ptr < cursor.ptr
    /\ 0 < cursor.len

\* C6: remaining length 0 is terminal: from it every advance with len > 0
\* returns (NULL, 0) and the remaining length stays 0; a cursor derived from
\* an empty view starts there.
C6_EmptyIsTerminal ==
    /\ (buf.len = 0 => cursor.len = 0)
    /\ [][cursor.len = 0 =>
             /\ cursor'.len = 0
             /\ (call'.len > 0 => rv' = EmptyCursor)]_vars

C6_Witness ==
    /\ call.op = "advance"
    /\ call.pre.len = 0
    /\ call.pre.ptr > buf.buffer
    /\ call.len > 0
    /\ rv = EmptyCursor
    /\ cursor.len = 0

(***************************************************************************)
(* Properties of the atomic cell (specifications SpecCounter, SpecAtomic).  *)
(***************************************************************************)
RECURSIVE SumTo(_, _)
SumTo(f, n) == IF n = 0 THEN 0 ELSE f[n] + SumTo(f, n - 1)

AllDone == \A t \in Threads : cnt[t] = KCalls

\* C7: when NThreads threads each make KCalls calls fetch_add(1, seq_cst) on
\* a cell initialised to v0, in any interleaving, no increment is lost, the
\* final value is (v0 + NThreads*KCalls) mod 2^W, and absent wrap-around the
\* values returned are pairwise distinct.
C7_NoLostIncrement ==
    /\ ~aborted
    /\ Len(rets) = SumTo(cnt, NThreads)
    /\ var = (v0 + SumTo(cnt, NThreads)) % WordSize
    /\ AllDone => var = (v0 + NThreads * KCalls) % WordSize
    /\ (v0 + NThreads * KCalls <= SIZE_MAX) =>
           \A i, j \in 1..Len(rets) : i # j => rets[i] # rets[j]

C7_Witness ==
    /\ AllDone
    /\ v0 > 0
    /\ v0 + NThreads * KCalls <= SIZE_MAX
    /\ var = v0 + NThreads * KCalls
    /\ Len(rets) = NThreads * KCalls

\* C8: one compare_exchange call on a cell holding c: with *expected = c it
\* sets the cell to desired, returns true and leaves *expected; with
\* *expected # c it returns false, leaves the cell and writes c to *expected.
\* One attempt: it never fails when *expected = c.
C8_CompareExchangeOnce ==
    (last.op \in {"compare_exchange_int", "compare_exchange_ptr"} /\ ~aborted) =>
        IF last.exp_in = last.old
        THEN last.ok /\ var = last.n /\ last.exp_out = last.exp_in
        ELSE ~last.ok /\ var = last.old /\ last.exp_out = last.old

C8_Witness ==
    /\ last.op = "compare_exchange_int"
    /\ ~aborted
    /\ last.exp_in # last.old
    /\ last.n # last.old
    /\ ~last.ok
    /\ var = last.old
    /\ last.exp_out = last.old

\* Bit i of word x.
Bit(x, i) == (x \div Pow2(i)) % 2

\* C10: each fetch operation with operand n on a cell holding old returns old
\* and leaves (old + n) mod 2^W, (old - n) mod 2^W, old OR n, old AND n,
\* old XOR n respectively, whatever the ordering; add and sub wrap.
C10_FetchOps ==
    ~aborted =>
        /\ last.op \in {"fetch_add", "fetch_sub", "fetch_or", "fetch_and", "fetch_xor"}
              => last.ret = last.old /\ var \in Word
        /\ last.op = "fetch_add" =>
              var = IF last.old + last.n > SIZE_MAX
                    THEN last.old + last.n - WordSize ELSE last.old + last.n
        /\ last.op = "fetch_sub" =>
              var = IF last.old < last.n
                    THEN last.old + WordSize - last.n ELSE last.old - last.n
        /\ last.op = "fetch_or" =>
              \A i \in 0..(W - 1) :
                  Bit(var, i) = 1 <=> (Bit(last.old, i) = 1 \/ Bit(last.n, i) = 1)
        /\ last.op = "fetch_and" =>
              \A i \in 0..(W - 1) :
                  Bit(var, i) = 1 <=> (Bit(last.old, i) = 1 /\ Bit(last.n, i) = 1)
        /\ last.op = "fetch_xor" =>
              \A i \in 0..(W - 1) :
                  Bit(var, i) = 1 <=> (Bit(last.old, i) # Bit(last.n, i))

C10_Witness ==
    /\ last.op = "fetch_sub"
    /\ ~aborted
    /\ last.order = "relaxed"
    /\ last.old < last.n
    /\ last.ret = last.old
    /\ var = last.old + WordSize - last.n

(***************************************************************************)
(* Properties of message passing (specification SpecMP).                    *)
(***************************************************************************)
\* C9: when A stores 1 to the flag with release after writing data, and B's
\* acquire load of the flag returns 1, every read of data B then makes
\* returns what A wrote; and B's load returns only a value the flag was
\* initialised with or that was stored to it.
C9_ReleaseAcquire ==
    /\ obs.flag \in {mem.flag[k].val : k \in 1..Len(mem.flag)}
    /\ (ord.store = "release" /\ ord.load = "acquire" /\ obs.flag = 1) =>
           \A i \in 1..Len(obs.data) : obs.data[i] = i

C9_Witness ==
    /\ ord.store = "release"
    /\ ord.load = "acquire"
    /\ pcB.polls = MaxPolls
    /\ obs.flag = 1
    /\ Len(obs.data) = NData
    /\ \A i \in DataLocs : obs.data[i] = i

(***************************************************************************)
(* Further properties of the atomic cell (specification SpecAtomic).        *)
(***************************************************************************)
\* C11: with nothing in between, a load with any of the five orderings made
\* right after init(v) or store(v, o) returns v, for the integer and for the
\* pointer variant.
C11_LoadAfterStore ==
    (~aborted /\ last.order \in Orders) =>
        /\ (last.op = "load_int" /\ last.after.op \in {"init_int", "store_int"})
              => last.ret = last.after.n
        /\ (last.op = "load_ptr" /\ last.after.op \in {"init_ptr", "store_ptr"})
              => last.ret = last.after.n

C11_Witness ==
    /\ ~aborted
    /\ last.op = "load_int"
    /\ last.order = "acquire"
    /\ last.after.op = "store_int"
    /\ last.after.n = SIZE_MAX
    /\ last.ret = SIZE_MAX

(***************************************************************************)
(* Properties of concurrent exchanges (specification SpecXchg).             *)
(***************************************************************************)
\* The values the cell was given so far: the initial one and one per call made.
Placed == {v0} \cup UNION {{ExchangeValue(t, k) : k \in 1..cnt[t]} : t \in Threads}

TimesReturned(v) == Cardinality({i \in 1..Len(rets) : rets[i] = v})

\* C12: exchange(v2, o) on a cell holding v1 returns v1 and leaves v2, for
\* every ordering; under concurrent exchanges every value placed in the cell
\* either was returned by exactly one exchange or is the value the cell
\* holds, never both and never twice.
C12_ExchangeConserves ==
    /\ ~aborted
    /\ last.op \in {"exchange_int", "exchange_ptr"} =>
           last.ret = last.old /\ var = last.n
    /\ \A i \in 1..Len(rets) : rets[i] \in Placed
    /\ \A v \in Placed :
           \/ TimesReturned(v) = 1 /\ var # v
           \/ TimesReturned(v) = 0 /\ var = v

C12_Witness ==
    /\ \A t \in Threads : cnt[t] = KCalls
    /\ rets[1] = v0
    /\ rets[2] = ExchangeValue(NThreads, 1)
    /\ var = ExchangeValue(1, KCalls)
    /\ last.order = "relaxed"
    /\ last.op = "exchange_ptr"

(***************************************************************************)
(* Caller errors of the atomic operations (specification SpecAtomic).       *)
(***************************************************************************)
\* Strength of an ordering, for comparing order_failure with order_success.
Strength(o) ==
    CASE o = "relaxed" -> 0
      [] o = "acquire" -> 1
      [] o = "release" -> 1
      [] o = "acq_rel" -> 2
      [] o = "seq_cst" -> 3

Malformed(order_success, order_failure) ==
    /\ order_success \in Orders
    /\ order_failure \in Orders
    /\ \/ order_failure \in {"release", "acq_rel"}
       \/ Strength(order_failure) > Strength(order_success)

\* C13: a compare_exchange whose order_failure is release or acq_rel, or is
\* stronger than order_success, is stopped as a fatal error and does not
\* perform the compare-and-swap: the cell keeps its value.
C13_MalformedPairRejected ==
    (/\ last.op \in {"compare_exchange_int", "compare_exchange_ptr"}
     /\ Malformed(last.order, last.order_failure))
        => aborted /\ var = last.old

\* C14: an ordering value outside the enumeration is fatal in every operation
\* that takes one, thread_fence included, and leaves the cell unchanged.
C14_UnknownOrderFatal ==
    (/\ last.op \notin {"none", "init_int", "init_ptr"}
     /\ (last.order \notin Orders \/ last.order_failure \notin Orders))
        => aborted /\ var = last.old

IntOps == {"load_int", "store_int", "exchange_int", "compare_exchange_int",
           "fetch_add", "fetch_sub", "fetch_or", "fetch_and", "fetch_xor"}
PtrOps == {"load_ptr", "store_ptr", "exchange_ptr", "compare_exchange_ptr"}

\* C15: an operation of the other logical type than the one the cell was
\* initialised with (an integer operation after init_ptr, a pointer operation
\* after init_int) is fatal and leaves the cell unchanged.
C15_WrongTypeFatal ==
    (\/ last.op \in IntOps /\ kind = "ptr"
     \/ last.op \in PtrOps /\ kind = "int")
        => aborted /\ var = last.old

(***************************************************************************)
(* The hardened advance and its masked length.                              *)
(***************************************************************************)
\* C16: for every len the range check of aws_byte_cursor_advance_nospec
\* accepts (len <= R, len <= SIZE_MAX/2, R <= SIZE_MAX/2), aws_nospec_index(len,
\* R + 1) is len, so the returned cursor has length len and the cursor moves
\* by len.
C16_AcceptedLenUnmasked ==
    (call.op = "advance_nospec" /\ ~Rejected(call.pre, call.len)) =>
        /\ aws_nospec_index(call.len, AddW(call.pre.len, 1)) = call.len
        /\ rv = [ptr |-> call.pre.ptr, len |-> call.len]
        /\ cursor = [ptr |-> call.pre.ptr + call.len,
                     len |-> call.pre.len - call.len]

\* C17: aws_nospec_index(i, b) is below b for every i and every b > 0 and is 0
\* for b = 0; so when the body of aws_byte_cursor_advance_nospec runs without
\* its range check, for any len and any remaining length R (R + 1 taken
\* modulo 2^w), the masked length m is at most R, the new pointer is ptr + m
\* and the new remaining length is R - m without underflow.
C17_MaskedLenInRange ==
    /\ ni.called =>
          /\ ni.bound > 0 => ni.result < ni.bound
          /\ ni.bound = 0 => ni.result = 0
    /\ ni.spec =>
          /\ ni.rv.ptr = ni.pre.ptr
          /\ ni.rv.len <= ni.pre.len
          /\ ni.cursor.ptr = AddW(ni.pre.ptr, ni.rv.len)
          /\ ni.cursor.len = ni.pre.len - ni.rv.len

C17_Witness ==
    /\ ni.called /\ ni.spec
    /\ ni.index = SIZE_MAX
    /\ ni.bound = SIZE_MAX
    /\ ni.pre.ptr = 2
    /\ ni.rv.len = 0
    /\ ni.cursor = ni.pre

\* C18: for a view of length L <= SIZE_MAX/2, over any sequence of advance and
\* advance_nospec calls, every slice returned by an accepted call starts where
\* the previous returned slice ended (the first at the view's base) and ends
\* at the cursor's pointer, and the lengths returned so far plus the remaining
\* length add up to L.
C18_SlicesPartitionPrefix ==
    buf.len <= HALF_MAX =>
        /\ hist.sum + cursor.len = buf.len
        /\ hist.end = buf.buffer + hist.sum
        /\ hist.end = cursor.ptr
        /\ (call.op # "none" /\ Accepts(call.pre, call.len)) =>
               /\ rv.ptr = hist.prev
               /\ rv.ptr + rv.len = hist.end

C18_Witness ==
    /\ buf = [buffer |-> 1, len |-> HALF_MAX]
    /\ call.op = "advance_nospec"
    /\ rv.ptr > buf.buffer
    /\ rv.len > 1
    /\ cursor.len = 0
    /\ hist.sum = HALF_MAX

\* C20: for a cursor with a non-NULL pointer, advance and advance_nospec
\* return a NULL pointer exactly when the request is rejected; a zero-length
\* advance with R <= SIZE_MAX/2 returns (ptr, 0) and leaves the cursor
\* unchanged, and that value equals the failure value (NULL, 0) only when the
\* cursor's pointer is NULL.
C20_NullIffRejected ==
    call.op # "none" =>
        /\ call.pre.ptr # NULL =>
               (rv.ptr = NULL <=> Rejected(call.pre, call.len))
        /\ (call.len = 0 /\ call.pre.len <= HALF_MAX) =>
               /\ rv = [ptr |-> call.pre.ptr, len |-> 0]
               /\ cursor = call.pre
               /\ (rv = EmptyCursor <=> call.pre.ptr = NULL)

C20_Witness ==
    /\ call.op = "advance_nospec"
    /\ call.len = 0
    /\ call.pre = [ptr |-> 2, len |-> HALF_MAX]
    /\ rv = [ptr |-> 2, len |-> 0]
    /\ cursor = call.pre

(***************************************************************************)
(* Properties of racing compare-and-swap (specification SpecCasRace).       *)
(***************************************************************************)
Winners == {i \in 1..Len(rets) : rets[i].ok}

\* C19: when several threads each make one compare_exchange with the same
\* expected value e and a desired value other than e on a cell holding e,
\* exactly one call returns true, whatever the interleaving; every other call
\* returns false and leaves in *expected the value the cell held when it ran.
C19_OneWinner ==
    /\ ~aborted
    /\ Len(rets) > 0 => Cardinality(Winners) = 1
    /\ \A i \in 1..Len(rets) :
          IF rets[i].ok
          THEN rets[i].old = v0 /\ rets[i].expected = v0
          ELSE /\ rets[i].expected = rets[i].old
               /\ rets[i].old # v0
               /\ \E j \in Winners : j < i /\ rets[i].old = rets[j].desired
    /\ \A i \in Winners : var = rets[i].desired

C19_Witness ==
    /\ \A t \in Threads : cnt[t] = 1
    /\ Len(rets) = NThreads
    /\ rets[1].t = NThreads /\ rets[1].ok /\ rets[1].desired = SIZE_MAX
    /\ ~rets[NThreads].ok
    /\ rets[NThreads].expected = SIZE_MAX
    /\ rets[NThreads].desired = 1
    /\ v0 = 0
    /\ var = SIZE_MAX

====
